---- MODULE Spec2Model ----
(***************************************************************************)
(* Model of the backup-retention pipeline of Campus-Backups-Manager:       *)
(*   src/app/api_utils.py   scanner, remote metadata client, retention     *)
(*                          verdict, folder size, deletion mover           *)
(*   src/app/ticket_app.py  TicketApp: the button handlers, load_tickets   *)
(*                          (fan-out / fan-in of one task per ticket),     *)
(*                          the result list, the progress bar, the         *)
(*                          deletion checklist                             *)
(*                                                                         *)
(* Time is counted in seconds.  Folder names and ticket numbers are        *)
(* sequences of one-character strings, so that the regular expression      *)
(* search and the substring test are computed character by character.      *)
(***************************************************************************)
EXTENDS Integers, Sequences, FiniteSets, TLC

(***************************************************************************)
(* Bounds of the model.                                                    *)
(***************************************************************************)
\* evaluation cycles started by the "Yes" button after the login cycle
MaxYesCycles == 1
\* folders removed from the backups location by something other than the app
MaxEnvRemovals == 1
\* entries of a directory listing handed to the scanner or the mover on its own
MaxScanLen == 3
\* calls of the mover on its own with one batch
MaxMoveCalls == 2

(***************************************************************************)
(* Program constants.                                                      *)
(***************************************************************************)
\* \d{7} of the ticket pattern
NumDigits == 7
\* timedelta(weeks=2), in seconds
TwoWeeks == 1209600
\* the divisor of human_readable_size
UnitStep == 1024
\* UTC offsets of America/New_York: standard time and daylight time
OffsetEST == -18000
OffsetEDT == -14400

TicketPrefix == <<"T", "K", "T">>
Digits == {"0", "1", "2", "3", "4", "5", "6", "7", "8", "9"}
HoldLabel == "0874ad561b6b9d147881db13dd4bcb96"
Units == <<"B", "KiB", "MiB", "GiB", "TiB">>

(***************************************************************************)
(* Strings as character sequences.                                         *)
(***************************************************************************)
\* s[i .. i+Len(p)-1] = p
MatchAt(p, s, i) ==
    /\ i >= 1
    /\ i + Len(p) - 1 <= Len(s)
    /\ \A k \in 1..Len(p) : s[i + k - 1] = p[k]

\* Python's `p in s` for strings
Contains(p, s) == \E i \in 1..(Len(s) + 1) : MatchAt(p, s, i)

\* re.compile(r'TKT\d{7}') matches at position i of s
PatternAt(s, i) ==
    /\ MatchAt(TicketPrefix, s, i)
    /\ i + Len(TicketPrefix) + NumDigits - 1 <= Len(s)
    /\ \A k \in 0..(NumDigits - 1) : s[i + Len(TicketPrefix) + k] \in Digits

\* ticket_pattern.search(folder_name): the leftmost match, <<>> for None
PatternSearch(s) ==
    LET hits == {i \in 1..Len(s) : PatternAt(s, i)}
    IN  IF hits = {} THEN <<>>
        ELSE LET i == CHOOSE j \in hits : \A k \in hits : j <= k
             IN  SubSeq(s, i, i + Len(TicketPrefix) + NumDigits - 1)

(***************************************************************************)
(* The filesystem.  An entry of a directory has a name, is a directory or  *)
(* a plain file, and (a directory) holds files and subdirectories.  The    *)
(* entries that can exist are the rows of Entries; a directory listing is  *)
(* a sequence of row numbers, in os.listdir order.                         *)
(***************************************************************************)
File(size, readable) == [size |-> size, readable |-> readable]
Tree(files, subdirs) == [files |-> files, subdirs |-> subdirs]

Name1Old == <<"T","K","T","0","0","0","0","0","0","1","-","o","l","d">>
Name2New == <<"T","K","T","0","0","0","0","0","0","2","-","n","e","w">>
NameRandom == <<"r","a","n","d","o","m","-","f","o","l","d","e","r">>
Name1Dup == <<"T","K","T","0","0","0","0","0","0","1","-","b">>
Name1File == <<"T","K","T","0","0","0","0","0","0","1",".","t","x","t">>
Name12 == <<"T","K","T","0","0","0","0","0","0","1","_","T","K","T","0","0","0","0","0","0","2">>
NameABC == <<"A","B","C","0","0","0","0","0","0","3","-","x">>
NameLate == <<"x","-","T","K","T","0","0","0","0","0","0","2","1">>

Entries == <<
    [name |-> Name1Old, dir |-> TRUE,
     tree |-> Tree(<<File(100, TRUE), File(7, FALSE)>>, <<Tree(<<File(20, TRUE)>>, <<>>)>>)],
    [name |-> Name2New, dir |-> TRUE,
     tree |-> Tree(<<File(2048, TRUE)>>, <<>>)],
    [name |-> NameRandom, dir |-> TRUE,
     tree |-> Tree(<<File(5, TRUE)>>, <<>>)],
    [name |-> Name1Dup, dir |-> TRUE,
     tree |-> Tree(<<File(30, TRUE)>>, <<>>)],
    [name |-> Name1File, dir |-> FALSE,
     tree |-> Tree(<<>>, <<>>)],
    [name |-> Name12, dir |-> TRUE,
     tree |-> Tree(<<File(40, TRUE)>>, <<>>)],
    [name |-> NameABC, dir |-> TRUE,
     tree |-> Tree(<<File(50, TRUE)>>, <<>>)],
    [name |-> NameLate, dir |-> TRUE,
     tree |-> Tree(<<File(60, TRUE)>>, <<>>)]
>>

EntryIds == DOMAIN Entries

\* the ticket number the scanner reads from each entry's name (<<>>: none)
ScanIdOf == [e \in EntryIds |-> PatternSearch(Entries[e].name)]

TKT1 == SubSeq(Name1Old, 1, 10)
TKT2 == SubSeq(Name2New, 1, 10)

RECURSIVE SumSeq(_)
SumSeq(s) == IF s = <<>> THEN 0 ELSE Head(s) + SumSeq(Tail(s))

\* os.path.getsize of each file of one directory level; a file whose size
\* cannot be read raises inside the try and adds nothing
SumFiles(files) ==
    SumSeq([i \in 1..Len(files) |-> IF files[i].readable THEN files[i].size ELSE 0])

\* get_folder_size: os.walk over the folder and everything below it
RECURSIVE get_folder_size(_)
get_folder_size(tree) ==
    SumFiles(tree.files)
    + SumSeq([i \in 1..Len(tree.subdirs) |-> get_folder_size(tree.subdirs[i])])

\* os.walk of a path that is not a directory yields nothing
PathSize(e) ==
    IF Entries[e].dir THEN get_folder_size(Entries[e].tree) ELSE 0

RECURSIVE Pow(_, _)
Pow(b, k) == IF k = 0 THEN 1 ELSE b * Pow(b, k - 1)

\* human_readable_size: the loop over the units.  `whole` is the integer part
\* of size / 1024^k (size < 1024 is decided by it); the text is size / 1024^k
\* to two decimals, kept as hundredths of the unit, with the unit.  <<>> is
\* the None returned when the loop runs out of units.
RECURSIVE human_readable_loop(_, _, _)
human_readable_loop(size, whole, k) ==
    IF k >= Len(Units) THEN <<>>
    ELSE IF whole < UnitStep
         THEN <<(200 * size + Pow(UnitStep, k)) \div (2 * Pow(UnitStep, k)), Units[k + 1]>>
         ELSE human_readable_loop(size, whole \div UnitStep, k + 1)

human_readable_size(size) == human_readable_loop(size, size, 0)

\* find_matching_folders: every entry of the listing (directory or not)
\* whose name contains the ticket number
MatchingFolders(listing, ticket_number) ==
    SelectSeq(listing, LAMBDA e : Contains(ticket_number, Entries[e].name))

\* (mutation) the scan without its os.path.isdir test
RECURSIVE ScanWithoutIsDir(_)
ScanWithoutIsDir(listing) ==
    IF listing = <<>> THEN <<>>
    ELSE LET e == Head(listing)
             rest == ScanWithoutIsDir(Tail(listing))
         IN  IF ScanIdOf[e] # <<>> THEN <<ScanIdOf[e]>> \o rest ELSE rest

\* scan_directory_for_tickets: one ticket number per subdirectory whose
\* name matches, in listing order, duplicates kept
RECURSIVE scan_directory_for_tickets(_)
scan_directory_for_tickets(listing) ==
    IF listing = <<>> THEN <<>>
    ELSE LET e == Head(listing)
             rest == scan_directory_for_tickets(Tail(listing))
         IN  IF Entries[e].dir /\ ScanIdOf[e] # <<>>
             THEN <<ScanIdOf[e]>> \o rest
             ELSE rest

(***************************************************************************)
(* Time.  A naive UTC timestamp is a number of seconds.  A zone-aware      *)
(* datetime is what pytz makes of it: the wall-clock reading and the UTC   *)
(* offset of the zone period it falls in (EST or EDT, two tzinfo objects). *)
(***************************************************************************)
\* the instant New York changes from standard to daylight time, in the
\* model's seconds
DstStart == 2000000

UtcOffsetAt(utc) == IF utc < DstStart THEN OffsetEST ELSE OffsetEDT

\* utc_time.replace(tzinfo=pytz.utc).astimezone(local_tz), and
\* datetime.now(pytz.timezone('America/New_York'))
ToLocal(utc) == [wall |-> utc + UtcOffsetAt(utc), off |-> UtcOffsetAt(utc)]

\* a - b of two aware datetimes: the wall clocks are subtracted when both
\* carry the same tzinfo, the UTC instants otherwise
AwareSub(a, b) ==
    IF a.off = b.off THEN a.wall - b.wall
    ELSE (a.wall - a.off) - (b.wall - b.off)

\* closed_at_local of a record: 'N/A', or the local time as text
LocalNA == [na |-> TRUE, wall |-> 0, off |-> 0]
LocalText(t) == [na |-> FALSE, wall |-> t.wall, off |-> t.off]

(***************************************************************************)
(* The remote ticketing service, as one ticket's fetch sees it.            *)
(*   item       outcome of the sc_req_item query:                          *)
(*              "ok" (200, one result), "empty" (200, no result),          *)
(*              "http_error" (not 200), "raise" (the request or the        *)
(*              decoding of its answer raises)                             *)
(*   closed_at  <<"missing", 0>>, <<"empty", 0>>, <<"time", t>> (naive     *)
(*              UTC) or <<"malformed", 0>> (text strptime rejects)         *)
(*   active     the item's 'active' field: "true" or "false"               *)
(*   closed_by  "ref" (a reference with a value), "missing" (no such       *)
(*              key), "text" (a plain string, which has no .get)           *)
(*   user       outcome of the sys_user query: "found", "empty",           *)
(*              "http_error", "raise"                                      *)
(*   label      outcome of the label_entry query: "ok", "http_error",      *)
(*              "raise"                                                    *)
(*   labels     the label values of the entries the label query returns    *)
(***************************************************************************)
Response(item, closed_at, active, closed_by, user, label, labels) ==
    [item |-> item, closed_at |-> closed_at, active |-> active,
     closed_by |-> closed_by, user |-> user, label |-> label, labels |-> labels]

NAText == "N/A"
OtherLabel == "another-label"
\* an entry of the label result that has no key ({})
EmptyEntry == "{}"
UserNameOf(ticket_number) == <<"user_name", ticket_number>>
SysIdOf(ticket_number) == <<"sys_id", ticket_number>>
UrlOf(sys_id) == <<"nav_to.do?uri=sc_req_item.do?sys_id=", sys_id>>

\* (mutation) fetch_label_info looking at the first entry only
FetchLabelFirstEntry(resp) ==
    IF resp.label = "ok"
    THEN Len(resp.labels) >= 1 /\ resp.labels[1] = HoldLabel
    ELSE FALSE

\* (mutation) fetch_label_info without the comparison of the label value:
\* any entry with keys counts
FetchLabelAnyEntry(resp) ==
    IF resp.label = "ok"
    THEN \E i \in 1..Len(resp.labels) : resp.labels[i] # EmptyEntry
    ELSE FALSE

\* fetch_label_info: an entry without keys is skipped, the others are
\* compared with the tag's id until one is equal
fetch_label_info(resp) ==
    IF resp.label = "ok"
    THEN \E i \in 1..Len(resp.labels) :
            resp.labels[i] # EmptyEntry /\ resp.labels[i] = HoldLabel
    ELSE FALSE

\* the closed_by_id handed to fetch_username_info
ClosedById(resp) ==
    IF resp.active = "false" /\ resp.closed_by = "ref" THEN "ref" ELSE NAText

\* fetch_username_info: no user has the sys_id 'N/A'
fetch_username_info(resp, ticket_number) ==
    IF resp.user = "found" /\ ClosedById(resp) # NAText
    THEN UserNameOf(ticket_number)
    ELSE <<NAText>>

\* (mutation) only the default 'N/A' is taken for an absent closure time
ClosedPresentOnlyNA(resp) == resp.closed_at[1] # "missing"

\* closed_at_utc != 'N/A' and closed_at_utc != ''
ClosedPresent(resp) == resp.closed_at[1] \notin {"missing", "empty"}

\* (mutation) the comparison with >= in place of >
ReadyForDeletionNonStrict(now_utc, local_time, has_ready_for_pickup_tag) ==
    (AwareSub(ToLocal(now_utc), local_time) >= TwoWeeks) /\ ~has_ready_for_pickup_tag

\* (mutation) the verdict without its `and not has_ready_for_pickup_tag`
ReadyForDeletionIgnoringTag(now_utc, local_time, has_ready_for_pickup_tag) ==
    AwareSub(ToLocal(now_utc), local_time) > TwoWeeks

\* the comparison of line 263, for a present closure time
ReadyForDeletion(now_utc, local_time, has_ready_for_pickup_tag) ==
    (AwareSub(ToLocal(now_utc), local_time) > TwoWeeks) /\ ~has_ready_for_pickup_tag

\* closed_at_local and ready_for_deletion of the record
ClosedAtLocal(resp) ==
    IF ClosedPresent(resp) THEN LocalText(ToLocal(resp.closed_at[2])) ELSE LocalNA

Verdict(resp, now_utc) ==
    IF ClosedPresent(resp)
    THEN ReadyForDeletion(now_utc, ToLocal(resp.closed_at[2]), fetch_label_info(resp))
    ELSE FALSE

\* (mutation) a failed username or label query drops the ticket
FetchKindDroppingDegraded(resp, listing, ticket_number) ==
    IF resp.item = "raise" THEN "raise"
    ELSE IF resp.item # "ok" THEN "none"
    ELSE IF resp.label = "raise" THEN "raise"
    ELSE IF resp.label = "http_error" \/ resp.user = "http_error" THEN "none"
    ELSE IF resp.active = "false" /\ resp.closed_by = "text" THEN "raise"
    ELSE IF resp.closed_at[1] = "malformed" THEN "raise"
    ELSE IF resp.user = "raise" THEN "raise"
    ELSE IF MatchingFolders(listing, ticket_number) = <<>> THEN "raise"
    ELSE "record"

\* how one call of fetch_ticket_info ends: it raises, returns None or
\* returns a record
FetchKind(resp, listing, ticket_number) ==
    IF resp.item = "raise" THEN "raise"
    ELSE IF resp.item # "ok" THEN "none"
    ELSE IF resp.label = "raise" THEN "raise"
    ELSE IF resp.active = "false" /\ resp.closed_by = "text" THEN "raise"
    ELSE IF resp.closed_at[1] = "malformed" THEN "raise"
    ELSE IF resp.user = "raise" THEN "raise"
    ELSE IF MatchingFolders(listing, ticket_number) = <<>> THEN "raise"
    ELSE "record"

NoInfo ==
    [ticket_number |-> <<>>, sys_id |-> <<>>, closed_at_local |-> LocalNA,
     closed_by_username |-> <<>>, has_ready_for_pickup_tag |-> FALSE,
     ready_for_deletion |-> FALSE, folder_size |-> <<>>, url |-> <<>>]

\* the dictionary fetch_ticket_info returns
TicketInfo(resp, now_utc, listing, ticket_number) ==
    [ticket_number |-> ticket_number,
     sys_id |-> SysIdOf(ticket_number),
     closed_at_local |-> ClosedAtLocal(resp),
     closed_by_username |-> fetch_username_info(resp, ticket_number),
     has_ready_for_pickup_tag |-> fetch_label_info(resp),
     ready_for_deletion |-> Verdict(resp, now_utc),
     folder_size |->
         human_readable_size(PathSize(Head(MatchingFolders(listing, ticket_number)))),
     url |-> UrlOf(SysIdOf(ticket_number))]

fetch_ticket_info(resp, now_utc, listing, ticket_number) ==
    LET kind == FetchKind(resp, listing, ticket_number)
    IN  [kind |-> kind,
         info |-> IF kind = "record"
                  THEN TicketInfo(resp, now_utc, listing, ticket_number)
                  ELSE NoInfo]

(***************************************************************************)
(* The inputs the model draws.                                             *)
(***************************************************************************)
\* "now" of the evaluation cycles: in daylight time, 14 days after a day in
\* standard time
Now0 == DstStart + 100000
OneDay == 24 * 3600

Closed(t) == <<"time", t>>
ClosedMissing == <<"missing", 0>>
ClosedEmpty == <<"empty", 0>>
ClosedMalformed == <<"malformed", 0>>

\* what the remote service answers to the fetches of the evaluation cycles
RespReady == Response("ok", Closed(Now0 - 20 * OneDay), "false", "ref", "found", "ok", <<OtherLabel>>)
RespHeld == Response("ok", Closed(Now0 - 20 * OneDay), "false", "ref", "found", "ok", <<OtherLabel, HoldLabel>>)
RespOpen == Response("ok", ClosedEmpty, "true", "missing", "empty", "ok", <<HoldLabel>>)
RespOpenMissing == Response("ok", ClosedMissing, "true", "missing", "empty", "ok", <<>>)
RespUserFail == Response("ok", Closed(Now0 - OneDay), "false", "ref", "http_error", "ok", <<HoldLabel>>)
RespLabelFail == Response("ok", Closed(Now0 - OneDay), "false", "ref", "found", "http_error", <<HoldLabel>>)
RespDegraded == Response("ok", Closed(Now0 - 20 * OneDay), "false", "ref", "http_error", "http_error", <<HoldLabel>>)
RespHttpError == Response("http_error", ClosedMissing, "true", "missing", "empty", "ok", <<>>)
RespEmpty == Response("empty", ClosedMissing, "true", "missing", "empty", "ok", <<>>)
RespRaise == Response("raise", ClosedMissing, "true", "missing", "empty", "ok", <<>>)

CycleResponses ==
    {RespReady, RespHeld, RespOpen, RespOpenMissing, RespUserFail, RespLabelFail,
     RespDegraded, RespHttpError, RespEmpty, RespRaise}

\* the answers a run draws from: all of them, or a ready ticket, a held one
\* and a request that raises
ScenarioResponses(which) ==
    IF which = "all" THEN CycleResponses ELSE {RespReady, RespHeld, RespRaise}

\* the backups location when the app starts
InitListings == {<<1, 2, 3>>, <<1, 4>>, <<5, 1>>, <<6, 2>>, <<7, 2>>, <<>>}

(***************************************************************************)
(* The state of TicketApp.                                                 *)
(***************************************************************************)
VARIABLES
    app,                \* "running", "exited" (exit()), "crashed" (a handler raised)
    display,            \* styles.display of the containers
    backups,            \* listing of BACKUPS_LOCATION
    deletion,           \* listing of DELETION_LOCATION
    now,                \* the clock, UTC seconds
    ticket_info_list,   \* self.ticket_info_list
    tasks,              \* the fetch_ticket_info_task tasks of the current cycle
    handler,            \* the on_button_pressed call suspended in load_tickets
    progress_total,     \* progress.total
    progress,           \* progress.progress
    table,              \* the rows of main_table
    checklist,          \* the Checkbox widgets mounted in scroll_center
    is_deletion_list_created,
    confirmation_text,  \* deletion_confirmation_text
    cycle,              \* load_tickets calls that got past the scan
    populated,          \* populate_table calls
    envRemovals,        \* folders removed by something other than the app
    error,              \* what raised out of a handler or a task: "none", "scan",
                        \* "arguments", "duplicate_ids", "fetch"
    mvErrors,           \* the entries whose move raised in the mover's last call on its own
    scenario,           \* what the run may draw: the "Yes" presses and the remote answers
    evalIn,             \* one call of fetch_ticket_info on its own: the answer it gets
    evalOut,            \* and what it returned (kind "pending" before the call)
    scanOut,            \* one call of scan_directory_for_tickets on its own: its result
    mvBatch,            \* calls of move_to_deletion_folder on their own: the ticket numbers
    mvCalls             \* and the number of calls made

vars ==
    <<app, display, backups, deletion, now, ticket_info_list, tasks, handler,
      progress_total, progress, table, checklist, is_deletion_list_created,
      confirmation_text, cycle, populated, envRemovals, error, mvErrors, scenario,
      evalIn, evalOut, scanOut, mvBatch, mvCalls>>

appVars ==
    <<app, display, backups, deletion, ticket_info_list, tasks, handler,
      progress_total, progress, table, checklist, is_deletion_list_created,
      confirmation_text, cycle, populated, envRemovals, error, mvErrors, scenario>>

Containers ==
    {"login_container", "main_container", "progress_container",
     "deletion_container", "login_error", "data_table"}

\* show / hide
Show(disp, id) == [disp EXCEPT ![id] = "block"]
Hide(disp, id) == [disp EXCEPT ![id] = "none"]

PendingOut == [kind |-> "pending", info |-> NoInfo]

\* the app after compose and on_mount
InitApp ==
    /\ app = "running"
    /\ display = [c \in Containers |->
                    IF c \in {"login_container", "data_table"} THEN "block" ELSE "none"]
    /\ deletion = <<>>
    /\ ticket_info_list = <<>>
    /\ tasks = <<>>
    /\ handler = "none"
    /\ progress_total = 0
    /\ progress = 0
    /\ table = <<>>
    /\ checklist = <<>>
    /\ is_deletion_list_created = FALSE
    /\ confirmation_text = "sure"
    /\ cycle = 0
    /\ populated = 0
    /\ envRemovals = 0
    /\ error = "none"
    /\ mvErrors = {}

\* scan_directory_for_tickets not called yet
PendingScan == [done |-> FALSE, tickets |-> <<>>]

\* the functions checked on their own, not in use
InitAlone ==
    /\ evalIn = RespReady
    /\ evalOut = PendingOut
    /\ scanOut = PendingScan
    /\ mvBatch = <<>>
    /\ mvCalls = 0

Init ==
    /\ InitApp
    /\ backups \in InitListings
    /\ now = Now0
    /\ scenario = [yes |-> MaxYesCycles, responses |-> "all"]
    /\ InitAlone

(***************************************************************************)
(* load_tickets and the per-ticket tasks.                                  *)
(***************************************************************************)
\* (mutation) load_tickets without the reset of the list
KeepList(list) == list

\* self.ticket_info_list = []
ResetList(list) == <<>>

\* the tasks load_tickets creates, one per scanned ticket number
NewTasks(ticket_numbers) ==
    [i \in 1..Len(ticket_numbers) |->
        [id |-> ticket_numbers[i], pc |-> "created", resp |-> RespReady,
         result |-> PendingOut]]

\* populate_table: one row per record, in list order.  Of the six columns the
\* first (ticket number) and the last (ready for deletion) are kept; no
\* handler reads a row back from the table.
TableRows(list) ==
    [i \in 1..Len(list) |-> <<list[i].ticket_number, list[i].ready_for_deletion>>]

\* what on_button_pressed does after load_tickets returned
AfterLoad(disp, h) ==
    IF h = "login" THEN Show(disp, "main_container")
    ELSE Hide(Show(disp, "main_container"), "deletion_container")

\* populate_table's effect on the containers
PopulateDisplay(disp) == Hide(Show(disp, "data_table"), "progress_container")

\* load_tickets up to `await asyncio.gather(*tasks)`, called by handler h with
\* the containers as disp.  With no ticket there is nothing to wait for and
\* the handler runs to its end.
BeginLoad(disp, listing, h) ==
    LET ticket_numbers == scan_directory_for_tickets(listing)
    IN  /\ ticket_info_list' = ResetList(ticket_info_list)
        /\ progress_total' = Len(ticket_numbers)
        /\ tasks' = NewTasks(ticket_numbers)
        /\ cycle' = cycle + 1
        /\ app' = app
        /\ error' = error
        /\ IF ticket_numbers = <<>>
           THEN /\ table' = TableRows(<<>>)
                /\ populated' = populated + 1
                /\ display' = AfterLoad(PopulateDisplay(Show(disp, "progress_container")), h)
                /\ handler' = "none"
           ELSE /\ table' = table
                /\ populated' = populated
                /\ display' = Show(disp, "progress_container")
                /\ handler' = h

\* (mutation) the scan made after the reset of the list
ScanRaisesAfterReset(disp) ==
    /\ app' = "crashed"
    /\ error' = "scan"
    /\ display' = disp
    /\ ticket_info_list' = <<>>
    /\ UNCHANGED <<progress_total, tasks, cycle, table, populated, handler>>

\* os.listdir raises in scan_directory_for_tickets: the handler raises
\* before load_tickets changed anything
ScanRaises(disp) ==
    /\ app' = "crashed"
    /\ error' = "scan"
    /\ display' = disp
    /\ UNCHANGED <<ticket_info_list, progress_total, tasks, cycle, table,
                   populated, handler>>

\* the blocking work of task i, in a worker thread
TaskFetch(i) ==
    /\ app = "running"
    /\ i \in DOMAIN tasks
    /\ tasks[i].pc = "created"
    /\ \E resp \in ScenarioResponses(scenario.responses) :
         tasks' = [tasks EXCEPT ![i] =
                     [@ EXCEPT !.pc = "fetched", !.resp = resp,
                               !.result = fetch_ticket_info(resp, now, backups, tasks[i].id)]]
    /\ UNCHANGED <<app, display, backups, deletion, now, ticket_info_list, handler,
                   progress_total, progress, table, checklist,
                   is_deletion_list_created, confirmation_text, cycle, populated,
                   envRemovals, error, mvErrors, evalIn, evalOut, scanOut, mvBatch,
                   mvCalls, scenario>>

\* (mutation) the append without its `if ticket_info:`
AppendResultAlways(list, result) ==
    IF result.kind = "raise" THEN list ELSE Append(list, result.info)

\* (mutation) an append made on a copy of the list read before the other
\* tasks appended: the last writer wins
AppendResultLosing(list, result) ==
    IF result.kind = "record" THEN <<result.info>> ELSE list

\* `if ticket_info: self.ticket_info_list.append(ticket_info)`
AppendResult(list, result) ==
    IF result.kind = "record" THEN Append(list, result.info) ELSE list

\* update_progress, called for a fetched record only; ProgressBar.advance
\* keeps progress within the total
AdvanceProgress(p, total, result) ==
    IF result.kind = "record"
    THEN (IF p + 1 > total THEN total ELSE p + 1)
    ELSE p

\* task i resumes on the event loop with what its thread returned
TaskResume(i) ==
    /\ app = "running"
    /\ i \in DOMAIN tasks
    /\ tasks[i].pc = "fetched"
    /\ tasks[i].result.kind # "raise"
    /\ ticket_info_list' = AppendResult(ticket_info_list, tasks[i].result)
    /\ progress' = AdvanceProgress(progress, progress_total, tasks[i].result)
    /\ tasks' = [tasks EXCEPT ![i].pc = "done"]
    /\ UNCHANGED <<app, display, backups, deletion, now, handler, progress_total,
                   table, checklist, is_deletion_list_created, confirmation_text,
                   cycle, populated, envRemovals, error, mvErrors, evalIn, evalOut,
                   scanOut, mvBatch, mvCalls, scenario>>

\* the thread of task i raised: the except branch of fetch_ticket_info_task
TaskRaise(i) ==
    /\ app = "running"
    /\ i \in DOMAIN tasks
    /\ tasks[i].pc = "fetched"
    /\ tasks[i].result.kind = "raise"
    /\ display' = Hide(Show(display, "login_error"), "main_container")
    /\ app' = "exited"
    /\ error' = "fetch"
    /\ tasks' = [tasks EXCEPT ![i].pc = "raised"]
    /\ UNCHANGED <<backups, deletion, now, ticket_info_list, handler, progress_total,
                   progress, table, checklist, is_deletion_list_created,
                   confirmation_text, cycle, populated, envRemovals, mvErrors,
                   evalIn, evalOut, scanOut, mvBatch, mvCalls, scenario>>

\* (mutation) the wait ends with the first task that finishes
SomeTaskDone(ts) == \E i \in DOMAIN ts : ts[i].pc = "done"

\* asyncio.gather(*tasks) returns
AllTasksDone(ts) == \A i \in DOMAIN ts : ts[i].pc = "done"

\* load_tickets after the gather, and the rest of the handler that called it
LoadJoin ==
    /\ app = "running"
    /\ handler # "none"
    /\ AllTasksDone(tasks)
    /\ table' = TableRows(ticket_info_list)
    /\ populated' = populated + 1
    /\ display' = AfterLoad(PopulateDisplay(display), handler)
    /\ handler' = "none"
    /\ UNCHANGED <<app, backups, deletion, now, ticket_info_list, tasks,
                   progress_total, progress, checklist, is_deletion_list_created,
                   confirmation_text, cycle, envRemovals, error, mvErrors,
                   evalIn, evalOut, scanOut, mvBatch, mvCalls, scenario>>

(***************************************************************************)
(* The deletion mover.                                                     *)
(***************************************************************************)
Range(seq) == {seq[i] : i \in DOMAIN seq}
Without(seq, e) == SelectSeq(seq, LAMBDA x : x # e)

\* (mutation) the inner loop without its `ticket_number in folder_name` test
RECURSIVE MoveEveryFolder(_, _, _, _)
MoveEveryFolder(listed, ticket_number, dirs, failing) ==
    IF listed = <<>> THEN dirs
    ELSE LET e == Head(listed)
             hit == Entries[e].dir /\ e \notin failing
         IN  MoveEveryFolder(Tail(listed), ticket_number,
                             IF hit THEN <<Without(dirs[1], e), Append(dirs[2], e)>> ELSE dirs,
                             failing)

\* (mutation) the inner loop without its try / except: the first move that
\* raises ends it
RECURSIVE MoveUntilError(_, _, _, _)
MoveUntilError(listed, ticket_number, dirs, failing) ==
    IF listed = <<>> THEN dirs
    ELSE LET e == Head(listed)
             match == Entries[e].dir /\ Contains(ticket_number, Entries[e].name)
         IN  IF match /\ e \in failing THEN dirs
             ELSE MoveUntilError(Tail(listed), ticket_number,
                                 IF match THEN <<Without(dirs[1], e), Append(dirs[2], e)>>
                                 ELSE dirs,
                                 failing)

\* the inner loop of move_to_deletion_folder over one os.listdir result;
\* dirs is <<backups, deletion>>, shutil.move raises for the entries of failing
RECURSIVE MoveMatching(_, _, _, _)
MoveMatching(listed, ticket_number, dirs, failing) ==
    IF listed = <<>> THEN dirs
    ELSE LET e == Head(listed)
             hit == /\ Entries[e].dir
                    /\ Contains(ticket_number, Entries[e].name)
                    /\ e \notin failing
         IN  MoveMatching(Tail(listed), ticket_number,
                          IF hit THEN <<Without(dirs[1], e), Append(dirs[2], e)>> ELSE dirs,
                          failing)

RECURSIVE move_to_deletion_folder(_, _, _)
move_to_deletion_folder(ticket_numbers, dirs, failing) ==
    IF ticket_numbers = <<>> THEN dirs
    ELSE move_to_deletion_folder(
             Tail(ticket_numbers),
             MoveMatching(dirs[1], Head(ticket_numbers), dirs, failing),
             failing)

\* the entries whose shutil.move raised during the call: the except branch
\* logs the error and the loop goes on
MoveErrors(ticket_numbers, listing, failing) ==
    {e \in Range(listing) \cap failing :
        /\ Entries[e].dir
        /\ \E i \in DOMAIN ticket_numbers :
              Contains(ticket_numbers[i], Entries[e].name)}

(***************************************************************************)
(* The deletion checklist.                                                 *)
(***************************************************************************)
\* deletion_info_list of show_deletion_confirmation
ReadyInfos(list) == SelectSeq(list, LAMBDA info : info.ready_for_deletion)

\* one Checkbox per ready record, unchecked, its id made of the ticket number
NewChecklist(infos) ==
    [i \in 1..Len(infos) |-> [id |-> infos[i].ticket_number, value |-> FALSE]]

\* the ticket numbers of the ticked checkboxes, in mounting order
CheckedTickets(boxes) ==
    LET ticked == SelectSeq(boxes, LAMBDA c : c.value)
    IN  [i \in 1..Len(ticked) |-> ticked[i].id]

HasDuplicateIds(boxes) ==
    \E i, j \in DOMAIN boxes : i < j /\ boxes[i].id = boxes[j].id

\* the boxes mounted before the first one whose id is already taken
RECURSIVE UniquePrefix(_, _)
UniquePrefix(boxes, seen) ==
    IF boxes = <<>> \/ Head(boxes).id \in seen THEN <<>>
    ELSE <<Head(boxes)>> \o UniquePrefix(Tail(boxes), seen \cup {Head(boxes).id})

(***************************************************************************)
(* on_button_pressed and the other events.                                 *)
(***************************************************************************)
\* The app handles one message at a time: while on_button_pressed waits in
\* load_tickets the next click is not dispatched, and when it is, it goes to
\* the widget shown at that moment.
Idle == app = "running" /\ handler = "none"

LoginDisplay(disp) ==
    Show(Hide(Hide(disp, "login_container"), "main_container"), "progress_container")

\* the "Login" button, up to the gather of load_tickets
PressLogin ==
    /\ Idle
    /\ display["login_container"] = "block"
    /\ \/ BeginLoad(LoginDisplay(display), backups, "login")
       \/ ScanRaises(LoginDisplay(display))
    /\ UNCHANGED <<backups, deletion, now, progress, checklist,
                   is_deletion_list_created, confirmation_text, envRemovals,
                   mvErrors, evalIn, evalOut, scanOut, mvBatch, mvCalls, scenario>>

\* the "Move to Deletion" button: the handler sets the two displays and
\* show_deletion_confirmation sets them again
PressMoveDeletion ==
    /\ Idle
    /\ display["main_container"] = "block"
    /\ display' = Show(Hide(display, "main_container"), "deletion_container")
    /\ LET infos == ReadyInfos(ticket_info_list)
           boxes == NewChecklist(infos)
       IN  IF infos = <<>>
           THEN /\ confirmation_text' = "none_ready"
                /\ UNCHANGED <<checklist, is_deletion_list_created, app, error>>
           ELSE IF is_deletion_list_created
           THEN /\ confirmation_text' = "sure"
                /\ UNCHANGED <<checklist, is_deletion_list_created, app, error>>
           ELSE IF ~HasDuplicateIds(boxes)
           THEN /\ confirmation_text' = "sure"
                /\ checklist' = boxes
                /\ is_deletion_list_created' = TRUE
                /\ UNCHANGED <<app, error>>
           ELSE \* two ready records with one ticket number: two widgets with
                \* one id.  The widget toolkit either refuses the second
                \* mount (the handler raises) or mounts it.
                \/ /\ checklist' = UniquePrefix(boxes, {})
                   /\ app' = "crashed"
                   /\ error' = "duplicate_ids"
                   /\ UNCHANGED <<confirmation_text, is_deletion_list_created>>
                \/ /\ confirmation_text' = "sure"
                   /\ checklist' = boxes
                   /\ is_deletion_list_created' = TRUE
                   /\ UNCHANGED <<app, error>>
    /\ UNCHANGED <<backups, deletion, now, ticket_info_list, tasks, handler,
                   progress_total, progress, table, cycle, populated, envRemovals,
                   mvErrors, evalIn, evalOut, scanOut, mvBatch, mvCalls, scenario>>

\* the user ticks or unticks checkbox k.  (A tick made while a handler waits
\* in load_tickets is read by no one before the handler ends, so ticks are
\* taken between handlers.)
ToggleCheckbox(k) ==
    /\ Idle
    /\ display["deletion_container"] = "block"
    /\ k \in DOMAIN checklist
    /\ checklist' = [checklist EXCEPT ![k].value = ~@]
    /\ UNCHANGED <<app, display, backups, deletion, now, ticket_info_list, tasks,
                   handler, progress_total, progress, table,
                   is_deletion_list_created, confirmation_text, cycle, populated,
                   envRemovals, error, mvErrors, evalIn, evalOut, scanOut, mvBatch,
                   mvCalls, scenario>>

\* the "No" button
PressNo ==
    /\ Idle
    /\ display["deletion_container"] = "block"
    /\ display' = Hide(Show(display, "main_container"), "deletion_container")
    /\ UNCHANGED <<app, backups, deletion, now, ticket_info_list, tasks, handler,
                   progress_total, progress, table, checklist,
                   is_deletion_list_created, confirmation_text, cycle, populated,
                   envRemovals, error, mvErrors, evalIn, evalOut, scanOut, mvBatch,
                   mvCalls, scenario>>

\* (mutation) the "Yes" button with the scan of load_tickets made on the
\* listing read before the move
PressYesScanFirst ==
    /\ Idle
    /\ display["deletion_container"] = "block"
    /\ cycle < 1 + scenario.yes
    /\ \E failing \in SUBSET Range(backups) :
         LET dirs == move_to_deletion_folder(CheckedTickets(checklist),
                                             <<backups, deletion>>, failing)
         IN  /\ backups' = dirs[1]
             /\ deletion' = dirs[2]
             /\ \/ BeginLoad(display, backups, "yes")
                \/ ScanRaises(display)
    /\ UNCHANGED <<now, progress, checklist, is_deletion_list_created,
                   confirmation_text, envRemovals, mvErrors, evalIn, evalOut,
                   scanOut, mvBatch, mvCalls, scenario>>

\* the "Yes" button: the move, then load_tickets up to its gather
PressYes ==
    /\ Idle
    /\ display["deletion_container"] = "block"
    /\ cycle < 1 + scenario.yes
    /\ \E failing \in SUBSET Range(backups) :
         LET dirs == move_to_deletion_folder(CheckedTickets(checklist),
                                             <<backups, deletion>>, failing)
         IN  /\ backups' = dirs[1]
             /\ deletion' = dirs[2]
             /\ \/ BeginLoad(display, dirs[1], "yes")
                \/ ScanRaises(display)
    /\ UNCHANGED <<now, progress, checklist, is_deletion_list_created,
                   confirmation_text, envRemovals, mvErrors, evalIn, evalOut,
                   scanOut, mvBatch, mvCalls, scenario>>

\* the "Empty Delete Folder" button: load_tickets is called without its table
\* argument, which raises before load_tickets runs
PressPermDelete ==
    /\ Idle
    /\ display["main_container"] = "block"
    /\ app' = "crashed"
    /\ error' = "arguments"
    /\ UNCHANGED <<display, backups, deletion, now, ticket_info_list, tasks,
                   handler, progress_total, progress, table, checklist,
                   is_deletion_list_created, confirmation_text, cycle, populated,
                   envRemovals, mvErrors, evalIn, evalOut, scanOut, mvBatch,
                   mvCalls, scenario>>

\* something other than the app removes an entry of the backups location
EnvRemove(e) ==
    /\ app = "running"
    /\ envRemovals < MaxEnvRemovals
    /\ e \in Range(backups)
    /\ backups' = Without(backups, e)
    /\ envRemovals' = envRemovals + 1
    /\ UNCHANGED <<app, display, deletion, now, ticket_info_list, tasks, handler,
                   progress_total, progress, table, checklist,
                   is_deletion_list_created, confirmation_text, cycle, populated,
                   error, mvErrors, evalIn, evalOut, scanOut, mvBatch, mvCalls,
                   scenario>>

Next ==
    \/ PressLogin
    \/ \E i \in 1..Len(tasks) : TaskFetch(i)
    \/ \E i \in 1..Len(tasks) : TaskResume(i)
    \/ \E i \in 1..Len(tasks) : TaskRaise(i)
    \/ LoadJoin
    \/ PressMoveDeletion
    \/ \E k \in 1..Len(checklist) : ToggleCheckbox(k)
    \/ PressNo
    \/ PressYes
    \/ PressPermDelete
    \/ \E e \in EntryIds : EnvRemove(e)

Spec == Init /\ [][Next]_vars

(***************************************************************************)
(* The app over one more "Yes" press, so that the confirmation is used     *)
(* again after a re-evaluation, with fewer folders and remote answers.     *)
(***************************************************************************)
InitRepeat ==
    /\ InitApp
    /\ backups \in {<<1, 2>>, <<1, 4>>}
    /\ now = Now0
    /\ scenario = [yes |-> MaxYesCycles + 1, responses |-> "few"]
    /\ InitAlone

SpecRepeat == InitRepeat /\ [][Next]_vars

(***************************************************************************)
(* scan_directory_for_tickets on its own, over the listings of up to       *)
(* MaxScanLen entries.                                                     *)
(***************************************************************************)
\* the listings of n distinct entries, n up to MaxScanLen, in any order
ScanListings ==
    {l \in UNION {[1..n -> EntryIds] : n \in 0..MaxScanLen} :
        \A i, j \in DOMAIN l : i # j => l[i] # l[j]}

InitScan ==
    /\ InitApp
    /\ backups \in ScanListings
    /\ now = Now0
    /\ scenario = [yes |-> MaxYesCycles, responses |-> "all"]
    /\ evalIn = RespReady
    /\ evalOut = PendingOut
    /\ scanOut = PendingScan
    /\ mvBatch = <<>>
    /\ mvCalls = 0

\* scan_directory_for_tickets(BACKUPS_LOCATION)
ScanApply ==
    /\ ~scanOut.done
    /\ scanOut' = [done |-> TRUE, tickets |-> scan_directory_for_tickets(backups)]
    /\ UNCHANGED <<now, evalIn, evalOut, mvBatch, mvCalls>>
    /\ UNCHANGED appVars

NextScan == ScanApply

SpecScan == InitScan /\ [][NextScan]_vars

(***************************************************************************)
(* move_to_deletion_folder on its own: up to MaxMoveCalls calls with one   *)
(* batch, each move free to raise.                                         *)
(***************************************************************************)
\* a ticket number no folder carries
TKT3 == <<"T", "K", "T", "0", "0", "0", "0", "0", "0", "3">>

\* the listings handed to the mover: folders of TKT0000001, of TKT0000002, of
\* both, of neither, and a plain file
MoveListings == {l \in ScanListings : \A i \in DOMAIN l : l[i] \in 1..6}

MoveBatches ==
    {<<>>, <<TKT1>>, <<TKT2>>, <<TKT3>>, <<TKT1, TKT2>>, <<TKT2, TKT1>>,
     <<TKT1, TKT1>>, <<TKT3, TKT2>>}

InitMove ==
    /\ InitApp
    /\ backups \in MoveListings
    /\ now = Now0
    /\ scenario = [yes |-> MaxYesCycles, responses |-> "all"]
    /\ evalIn = RespReady
    /\ evalOut = PendingOut
    /\ scanOut = PendingScan
    /\ mvBatch \in MoveBatches
    /\ mvCalls = 0

\* move_to_deletion_folder(mvBatch)
MoveApply ==
    /\ mvCalls < MaxMoveCalls
    /\ \E failing \in SUBSET {e \in Range(backups) : Entries[e].dir} :
         LET dirs == move_to_deletion_folder(mvBatch, <<backups, deletion>>, failing)
         IN  /\ backups' = dirs[1]
             /\ deletion' = dirs[2]
             /\ mvErrors' = MoveErrors(mvBatch, backups, failing)
    /\ mvCalls' = mvCalls + 1
    /\ UNCHANGED <<app, display, now, ticket_info_list, tasks, handler,
                   progress_total, progress, table, checklist,
                   is_deletion_list_created, confirmation_text, cycle, populated,
                   envRemovals, error, scenario, evalIn, evalOut, scanOut, mvBatch>>

NextMove == MoveApply

SpecMove == InitMove /\ [][NextMove]_vars

(***************************************************************************)
(* fetch_ticket_info on its own, over a wide range of answers and clocks.  *)
(***************************************************************************)
\* clocks: in standard time, just after the change to daylight time, and
\* later in daylight time
FetchNows == {DstStart - 10, DstStart + 1, Now0}

\* ages of the closure at the call
FetchAges == {0, OneDay, TwoWeeks - 1, TwoWeeks, TwoWeeks + 1, 20 * OneDay}

FetchResponses(now_utc) ==
    {Response(item, closed_at, active, closed_by, user, label, labels) :
        item \in {"ok", "empty", "http_error", "raise"},
        closed_at \in {ClosedMissing, ClosedEmpty, ClosedMalformed}
                      \cup {Closed(now_utc - age) : age \in FetchAges},
        active \in {"true", "false"},
        closed_by \in {"ref", "missing", "text"},
        user \in {"found", "empty", "http_error"},
        label \in {"ok", "http_error"},
        labels \in {<<>>, <<OtherLabel>>, <<OtherLabel, HoldLabel>>,
                    <<EmptyEntry, HoldLabel, OtherLabel>>}}

InitFetch ==
    /\ InitApp
    /\ backups \in {<<1, 2, 3>>, <<5, 1>>, <<2, 3>>}
    /\ now \in FetchNows
    /\ scenario = [yes |-> MaxYesCycles, responses |-> "all"]
    /\ evalIn \in FetchResponses(now)
    /\ evalOut = PendingOut
    /\ scanOut = PendingScan
    /\ mvBatch = <<>>
    /\ mvCalls = 0

\* fetch_ticket_info(INSTANCE, username, password, "TKT0000001")
FetchApply ==
    /\ evalOut.kind = "pending"
    /\ evalOut' = fetch_ticket_info(evalIn, now, backups, TKT1)
    /\ UNCHANGED <<now, evalIn, scanOut, mvBatch, mvCalls>>
    /\ UNCHANGED appVars

NextFetch == FetchApply

SpecFetch == InitFetch /\ [][NextFetch]_vars

(***************************************************************************)
(* Properties.                                                             *)
(***************************************************************************)
\* load_tickets has returned for the cycle started last
LoadCompleted == cycle >= 1 /\ populated = cycle

ListRecords == Range(ticket_info_list)

TaskIds == {tasks[i].id : i \in DOMAIN tasks}

\* the age (in seconds) the clock gives a record's closure time
AgeOf(info) == now - (info.closed_at_local.wall - info.closed_at_local.off)

\* C1: whatever the closure timestamp, the hold tag and the clock, the
\* ready_for_deletion flag fetch_ticket_info returns is: the closure time is
\* present, and now minus the closure time is more than 14 days, and the hold
\* tag is not set.  Exactly 14 days is not ready; 14 days and a second is.
C1_Verdict ==
    evalOut.kind = "record" =>
        (evalOut.info.ready_for_deletion <=>
            /\ evalIn.closed_at[1] = "time"
            /\ now - evalIn.closed_at[2] > TwoWeeks
            /\ ~evalOut.info.has_ready_for_pickup_tag)

C1_Witness ==
    /\ evalOut.kind = "record"
    /\ evalIn.closed_at = Closed(now - (TwoWeeks + 1))
    /\ UtcOffsetAt(now) # UtcOffsetAt(now - (TwoWeeks + 1))
    /\ evalOut.info.ready_for_deletion

\* C2: no record of an evaluation cycle has the hold tag and is ready for
\* deletion, however old its closure time.
C2_HeldNotReady ==
    /\ \A info \in ListRecords :
         info.has_ready_for_pickup_tag => ~info.ready_for_deletion
    /\ \A i \in DOMAIN tasks :
         (tasks[i].result.kind = "record" /\ tasks[i].result.info.has_ready_for_pickup_tag)
             => ~tasks[i].result.info.ready_for_deletion

C2_Witness ==
    \E info \in ListRecords :
        /\ info.has_ready_for_pickup_tag
        /\ ~info.closed_at_local.na
        /\ AgeOf(info) > TwoWeeks
        /\ ~info.ready_for_deletion

\* C3: a record made from a missing or empty remote closure timestamp has
\* closed_at_local 'N/A' and is not ready for deletion, with or without the hold
\* tag; and no record without a closure time is ready.
C3_OpenNotReady ==
    /\ \A i \in DOMAIN tasks :
         (tasks[i].result.kind = "record"
          /\ tasks[i].resp.closed_at[1] \in {"missing", "empty"})
             => /\ tasks[i].result.info.closed_at_local = LocalNA
                /\ ~tasks[i].result.info.ready_for_deletion
    /\ \A info \in ListRecords :
         info.closed_at_local.na => ~info.ready_for_deletion

C3_Witness ==
    \E i, j \in DOMAIN tasks :
        /\ tasks[i].pc = "done" /\ tasks[j].pc = "done"
        /\ tasks[i].resp.closed_at[1] = "empty"
        /\ tasks[j].resp.closed_at[1] = "missing"
        /\ tasks[i].result.kind = "record" /\ tasks[j].result.kind = "record"
        /\ tasks[i].result.info.has_ready_for_pickup_tag
        /\ tasks[i].result.info \in ListRecords
        /\ tasks[j].result.info \in ListRecords

\* C4: after load_tickets completes the result list holds at most one record
\* per ticket number, also when several subdirectories carry one ticket number.
C4_OneRecordPerTicket ==
    LoadCompleted =>
        \A i, j \in DOMAIN ticket_info_list :
            i # j => ticket_info_list[i].ticket_number # ticket_info_list[j].ticket_number

\* C5: after load_tickets completes every record of the result list is the
\* record of a task of this cycle, made for a ticket number the scanner
\* returned in this cycle; nothing of an earlier cycle is left.
C5_RecordsOfThisCycle ==
    LoadCompleted =>
        /\ Len(ticket_info_list) <= Len(tasks)
        /\ \A k \in DOMAIN ticket_info_list :
             /\ ticket_info_list[k].ticket_number \in TaskIds
             /\ \E i \in DOMAIN tasks :
                  /\ tasks[i].result.kind = "record"
                  /\ tasks[i].result.info = ticket_info_list[k]

C5_Witness ==
    /\ LoadCompleted
    /\ cycle = 2
    /\ ticket_info_list # <<>>
    /\ \E e \in Range(deletion) :
         \A info \in ListRecords : info.ticket_number # ScanIdOf[e]

\* the tasks whose item query answered with an error status or no result
FailedTasks ==
    {i \in DOMAIN tasks : tasks[i].pc # "created"
                          /\ tasks[i].resp.item \in {"http_error", "empty"}}

\* C6: when load_tickets completes a cycle of N tasks of which exactly one had
\* its item query fail (error status or empty result), the list has N - 1
\* records: one for each other task, as that task fetched it, and none for the
\* failing ticket number unless another folder carries the same number.
C6_OneFailureOneRecordLess ==
    (LoadCompleted /\ Cardinality(FailedTasks) = 1) =>
        LET others == DOMAIN tasks \ FailedTasks
            bad == CHOOSE i \in FailedTasks : TRUE
        IN  /\ Len(ticket_info_list) = Len(tasks) - 1
            /\ \E f \in [others -> DOMAIN ticket_info_list] :
                 /\ \A a, b \in others : a # b => f[a] # f[b]
                 /\ \A a \in others : ticket_info_list[f[a]] = tasks[a].result.info
            /\ (\A j \in others : tasks[j].id # tasks[bad].id)
                 => \A info \in ListRecords : info.ticket_number # tasks[bad].id

C6_Witness ==
    /\ LoadCompleted
    /\ Len(tasks) = 2
    /\ Cardinality(FailedTasks) = 1
    /\ Len(ticket_info_list) = 1

\* C7: an error raised by the work of one per-ticket task is absorbed in that
\* task: the process is not terminated and the cycle goes on.
C7_ErrorAbsorbed ==
    \A i \in DOMAIN tasks : tasks[i].pc = "raised" => app = "running"

\* C8: a task whose item query succeeded and whose username query or label
\* query answered with an error status still puts a record in the list, with
\* closed_by 'N/A' (username query failed) and no hold tag (label query failed).
C8_DegradedRecord ==
    \A i \in DOMAIN tasks :
        (/\ tasks[i].pc = "done"
         /\ tasks[i].resp.item = "ok"
         /\ (tasks[i].resp.user = "http_error" \/ tasks[i].resp.label = "http_error"))
        => /\ tasks[i].result.kind = "record"
           /\ tasks[i].result.info \in ListRecords
           /\ tasks[i].resp.user = "http_error"
                => tasks[i].result.info.closed_by_username = <<NAText>>
           /\ tasks[i].resp.label = "http_error"
                => ~tasks[i].result.info.has_ready_for_pickup_tag

C8_Witness ==
    \E i \in DOMAIN tasks :
        /\ tasks[i].pc = "done"
        /\ tasks[i].resp = RespDegraded
        /\ tasks[i].result.info \in ListRecords
        /\ tasks[i].result.info.closed_by_username = <<NAText>>
        /\ ~tasks[i].result.info.has_ready_for_pickup_tag

\* C9: the progress bar advances once per finished task, dropped tickets
\* included, so that after the gather progress equals the progress total.
C9_ProgressReachesTotal ==
    LoadCompleted => progress = progress_total

\* C10: the table is populated and the main container is shown only when
\* every task of the cycle has finished.
C10_Barrier ==
    /\ LoadCompleted => \A i \in DOMAIN tasks : tasks[i].pc = "done"
    /\ display["main_container"] = "block"
         => /\ handler = "none"
            /\ populated = cycle
            /\ \A i \in DOMAIN tasks : tasks[i].pc = "done"
    /\ handler # "none" => populated < cycle

C10_Witness ==
    /\ LoadCompleted
    /\ Len(tasks) = 2
    /\ Len(table) = 2
    /\ display["main_container"] = "block"

\* the tasks that have resumed with a record
RecordTasks == {i \in DOMAIN tasks : tasks[i].pc = "done" /\ tasks[i].result.kind = "record"}

\* one list entry for each task of RecordTasks, and no other entry
OneEntryPerRecordTask ==
    /\ Len(ticket_info_list) = Cardinality(RecordTasks)
    /\ \E f \in [RecordTasks -> DOMAIN ticket_info_list] :
         /\ \A a, b \in RecordTasks : a # b => f[a] # f[b]
         /\ \A a \in RecordTasks : ticket_info_list[f[a]] = tasks[a].result.info

\* an append and an advance of the progress bar come together
AppendWithAdvance ==
    /\ (ticket_info_list' # ticket_info_list /\ ticket_info_list' # <<>>)
         => (/\ Len(ticket_info_list') = Len(ticket_info_list) + 1
             /\ progress' = IF progress + 1 > progress_total
                             THEN progress_total ELSE progress + 1)
    /\ (progress' # progress)
         => (Len(ticket_info_list') = Len(ticket_info_list) + 1)

ScanFailureStep ==
    (error' = "scan" /\ error # "scan")
      => /\ ticket_info_list' = ticket_info_list
         /\ tasks' = tasks
         /\ cycle' = cycle
         /\ populated' = populated

\* C12: when the directory scan raises at the start of a cycle, the cycle
\* ends there: no task is created (the tasks are those of the previous cycle,
\* all finished), and the list is the one the previous completed cycle
\* returned, as the table shows it.
C12_ScanFailureKeepsList ==
    /\ [](error = "scan"
            => /\ \A i \in DOMAIN tasks : tasks[i].pc = "done"
               /\ populated = cycle
               /\ table = [i \in 1..Len(ticket_info_list) |->
                              <<ticket_info_list[i].ticket_number,
                                ticket_info_list[i].ready_for_deletion>>])
    /\ [][ScanFailureStep]_vars

\* the scan of the second cycle raised, after a first cycle that returned two
\* records and a move
C12_Witness ==
    /\ error = "scan"
    /\ cycle = 1
    /\ Len(ticket_info_list) = 2
    /\ Len(tasks) = 2
    /\ deletion # <<>>

UpperLetters ==
    {"A", "B", "C", "D", "E", "F", "G", "H", "I", "J", "K", "L", "M",
     "N", "O", "P", "Q", "R", "S", "T", "U", "V", "W", "X", "Y", "Z"}

\* the ten characters of name from position i on are three letters that make
\* one of prefixes, and seven digits
IdAt(name, i, prefixes) ==
    /\ i >= 1
    /\ i + 9 <= Len(name)
    /\ SubSeq(name, i, i + 2) \in prefixes
    /\ \A k \in (i + 3)..(i + 9) : name[k] \in Digits

\* t is the first ticket id in name
FirstId(name, t, prefixes) ==
    \E i \in 1..Len(name) :
        /\ IdAt(name, i, prefixes)
        /\ t = SubSeq(name, i, i + 9)
        /\ \A j \in 1..(i - 1) : ~IdAt(name, j, prefixes)

\* tickets holds, in listing order, the first id of each subdirectory of the
\* listing that has one, and nothing else
ScanYields(listing, tickets, prefixes) ==
    LET hits == SelectSeq(listing,
                    LAMBDA e : /\ Entries[e].dir
                               /\ \E i \in 1..Len(Entries[e].name) :
                                     IdAt(Entries[e].name, i, prefixes))
    IN  /\ Len(tickets) = Len(hits)
        /\ \A k \in DOMAIN hits : FirstId(Entries[hits[k]].name, tickets[k], prefixes)

\* C13 as stated: scan_directory_for_tickets returns, for each immediate
\* subdirectory whose name contains three uppercase letters followed by seven
\* digits, the first such match, and nothing for the other entries.
C13_AnyThreeLetters ==
    scanOut.done => ScanYields(backups, scanOut.tickets, [1..3 -> UpperLetters])

\* C13: scan_directory_for_tickets returns, for each immediate subdirectory
\* whose name contains the letters TKT followed by seven digits, the first such
\* match, and nothing for a plain file or for a name without such a match;
\* TKT0000001-old, TKT0000002-new and random-folder give TKT0000001 and
\* TKT0000002.
C13_ScanResult ==
    scanOut.done
      => /\ ScanYields(backups, scanOut.tickets, {<<"T", "K", "T">>})
         /\ backups = <<1, 2, 3>> => scanOut.tickets = <<TKT1, TKT2>>

\* a plain file with a ticket number in its name, a folder whose number comes
\* after other characters and has an eighth digit, a folder with two numbers
C13_Witness ==
    /\ scanOut.done
    /\ backups = <<5, 8, 6>>
    /\ scanOut.tickets = <<TKT2, TKT1>>

\* the subdirectories of the listing whose name contains a number of the batch
MatchingDirs(listing, batch) ==
    {e \in Range(listing) :
        /\ Entries[e].dir
        /\ \E k \in DOMAIN batch : Contains(batch[k], Entries[e].name)}

\* a call of the mover that finds nothing to move, or that follows a call in
\* which every folder of the batch was moved, changes nothing
MoveOfVanished ==
    (mvCalls' = mvCalls + 1)
      => /\ MatchingDirs(backups, mvBatch) = {}
              => (backups' = backups /\ deletion' = deletion /\ mvErrors' = {})
         /\ (mvCalls >= 1 /\ mvErrors = {})
              => (backups' = backups /\ deletion' = deletion /\ mvErrors' = {})

\* C14: move_to_deletion_folder called with ticket numbers that no folder of
\* the backups location carries changes neither directory and no error comes
\* of it; called a second time with a batch whose folders the first call all
\* moved, it leaves both directories as the first call left them.
C14_VanishedIsNoOp == [][MoveOfVanished]_vars

\* two calls with TKT0000001: both of its folders are in the deletion
\* location, the third folder is where it was
C14_Witness ==
    /\ mvCalls = 2
    /\ mvBatch = <<TKT1>>
    /\ backups = <<3>>
    /\ deletion = <<1, 4>>
    /\ mvErrors = {}

\* a call of the mover: a folder whose move raised stays, every other folder
\* of the batch has gone to the deletion location, the rest is untouched
MoveWithFailures ==
    (mvCalls' = mvCalls + 1)
      => \A e \in Range(backups) :
           IF e \in MatchingDirs(backups, mvBatch)
           THEN IF e \in mvErrors'
                THEN e \in Range(backups') /\ e \notin Range(deletion')
                ELSE e \notin Range(backups') /\ e \in Range(deletion')
           ELSE e \in Range(backups') /\ e \notin Range(deletion')

\* C15: when the move of one folder of a batch raises, move_to_deletion_folder
\* still returns; the folder stays in the backups location, and every other
\* folder of the batch, of the same ticket number or of a later one, is moved
\* if its own move does not raise.
C15_FailureIsolated == [][MoveWithFailures]_vars

\* the move of TKT0000001-old raised; TKT0000001-b and TKT0000002-new moved
C15_Witness ==
    /\ mvCalls = 1
    /\ mvBatch = <<TKT1, TKT2>>
    /\ mvErrors = {1}
    /\ backups = <<1>>
    /\ deletion = <<4, 2>>

\* the step of the "Yes" button
YesStep ==
    /\ Idle
    /\ display["deletion_container"] = "block"
    /\ (cycle' = cycle + 1 \/ (error = "none" /\ error' = "scan"))

\* the batch the "Yes" button hands to move_to_deletion_folder
YesBatch == Range(CheckedTickets(checklist))

\* no move of the "Yes" step raised: every folder the mover picked is gone
\* from the backups location
AllMovesDone ==
    \A e \in Range(backups) :
        (Entries[e].dir /\ \E t \in YesBatch : Contains(t, Entries[e].name))
            => e \notin Range(backups')

\* C16: after move_to_deletion_folder(batch) in which no move raised, every
\* folder of the backups location whose scanned ticket number is in the batch
\* is in the deletion location and no longer in the backups location, and
\* every folder whose scanned ticket number is not in the batch is still in
\* the backups location.
C16_ExactlyBatchMoved ==
    [][(YesStep /\ AllMovesDone)
         => \A e \in Range(backups) :
              Entries[e].dir
                => IF ScanIdOf[e] \in YesBatch
                   THEN e \notin Range(backups') /\ e \in Range(deletion')
                   ELSE e \in Range(backups') /\ e \notin Range(deletion')]_vars

\* the ticket numbers of the records flagged ready in the current list
ReadyIds == {info.ticket_number : info \in Range(ReadyInfos(ticket_info_list))}

\* what the "Yes" step passes and moves belongs to tickets flagged ready
OnlyReadyPassed ==
    /\ YesBatch \subseteq ReadyIds
    /\ \A e \in Range(deletion') \ Range(deletion) : ScanIdOf[e] \in ReadyIds

\* C18: over any sequence of login, "Move to Deletion", "Yes" / "No" and
\* re-evaluation, every ticket number the "Yes" button passes to
\* move_to_deletion_folder is the number of a record flagged
\* ready_for_deletion in the list of the most recent cycle.
\* No checkbox left ticked from an earlier showing makes the mover move a
\* folder whose ticket is not flagged ready now.
C18_OnlyReadyMoved == [][YesStep => OnlyReadyPassed]_vars

\* C19: each time the deletion confirmation is shown, on the first showing
\* and on every later one after a re-evaluation, the ticket numbers offered
\* in the checklist are the ticket numbers flagged ready in the current list.
C19_ChecklistIsReadySet ==
    (Idle /\ display["deletion_container"] = "block")
      => {checklist[k].id : k \in DOMAIN checklist} = ReadyIds

\* the ticket of task i carries the hold tag in the remote system
RemotelyHeld(i) == \E k \in DOMAIN tasks[i].resp.labels : tasks[i].resp.labels[k] = HoldLabel

\* C20 as stated: a ticket that carries the retention-hold tag in the remote
\* system is never given a record with ready_for_deletion true, whatever the
\* label query answers.
C20_TaggedNeverReady ==
    \A i \in DOMAIN tasks :
        (tasks[i].result.kind = "record" /\ RemotelyHeld(i))
            => ~tasks[i].result.info.ready_for_deletion

\* C20: a ticket that carries the retention-hold tag in the remote system is
\* never given a record with ready_for_deletion true by a cycle in which the
\* label query for it answers with success: the record has the tag, wherever
\* the tag's entry stands among the entries returned.  (A label query that
\* fails leaves the tag unseen.)
C20_TaggedAndSeenNeverReady ==
    \A i \in DOMAIN tasks :
        (tasks[i].result.kind = "record" /\ RemotelyHeld(i) /\ tasks[i].resp.label = "ok")
            => /\ tasks[i].result.info.has_ready_for_pickup_tag
               /\ ~tasks[i].result.info.ready_for_deletion
               /\ tasks[i].pc = "done" => tasks[i].result.info \in ListRecords

\* a ticket closed 20 days ago whose label query returned another label and
\* then the hold tag: its record is in the list, not ready
C20_Witness ==
    \E i \in DOMAIN tasks :
        /\ tasks[i].pc = "done"
        /\ tasks[i].resp = RespHeld
        /\ AgeOf(tasks[i].result.info) > TwoWeeks
        /\ tasks[i].result.info \in ListRecords
        /\ ~tasks[i].result.info.ready_for_deletion

\* C21: the closure timestamp of a remote item is used only when the item is
\* inactive.  The record of an item that is still active has closed_at_local
\* 'N/A' and is not ready for deletion, whatever closed_at the item carries,
\* a time more than 14 days old included.
C21_ActiveNeverClosed ==
    (evalOut.kind = "record" /\ evalIn.active = "true")
        => /\ evalOut.info.closed_at_local.na
           /\ ~evalOut.info.ready_for_deletion

\* the subdirectories of the listing whose name contains the ticket number,
\* in listing order
MatchingSubdirs(listing, ticket_number) ==
    SelectSeq(listing,
              LAMBDA e : Entries[e].dir /\ Contains(ticket_number, Entries[e].name))

\* C22: the folder size of a record is the recursive sum of the file sizes of
\* the first subdirectory of the backups location, in listing order, whose
\* name contains the record's ticket number; a plain file whose name contains
\* the number is never the entry that is measured.
C22_SizeOfFirstSubdir ==
    evalOut.kind = "record"
      => LET dirs == MatchingSubdirs(backups, evalOut.info.ticket_number)
         IN  /\ dirs # <<>>
             /\ evalOut.info.folder_size
                  = human_readable_size(get_folder_size(Entries[Head(dirs)].tree))

\* C23: when the label query answers with success, the record has the hold
\* tag if and only if at least one entry of the result carries the tag's id as
\* its label value; an empty result, and entries with other label values or
\* without keys, give no tag.
C23_TagIffSomeEntry ==
    (evalOut.kind = "record" /\ evalIn.label = "ok")
      => /\ evalOut.info.has_ready_for_pickup_tag
              <=> (\E k \in DOMAIN evalIn.labels : evalIn.labels[k] = HoldLabel)
         /\ evalIn.labels \in {<<>>, <<OtherLabel>>}
              => ~evalOut.info.has_ready_for_pickup_tag

\* the tag found after an entry without keys and before another label
C23_Witness ==
    /\ evalOut.kind = "record"
    /\ evalIn.label = "ok"
    /\ evalIn.labels = <<EmptyEntry, HoldLabel, OtherLabel>>
    /\ evalOut.info.has_ready_for_pickup_tag

\* the "Yes" step that starts a cycle (its scan did not raise) creates no
\* task for a ticket number of its batch when none of its moves raised
NoTaskForMoved ==
    (YesStep /\ cycle' = cycle + 1 /\ AllMovesDone)
      => \A i \in DOMAIN tasks' : tasks'[i].id \notin YesBatch

\* C24: after a "Yes" whose moves all succeeded, the evaluation cycle that
\* follows has no record for a ticket number of the batch: the cycle creates
\* no task for such a number, and at every moment the list holds only records
\* of the numbers its tasks were created for.  (Folders only leave the
\* backups location in the model, and the deletion location is elsewhere.)
C24_MovedNotReevaluated ==
    /\ [][NoTaskForMoved]_vars
    /\ [](\A k \in DOMAIN ticket_info_list :
            \E i \in DOMAIN tasks :
                /\ tasks[i].id = ticket_info_list[k].ticket_number
                /\ tasks[i].pc = "done")

\* TKT0000001 ticked and its folder moved; the cycle that followed returned
\* the record of TKT0000002 alone
C24_Witness ==
    /\ LoadCompleted
    /\ cycle = 2
    /\ Range(CheckedTickets(checklist)) = {TKT1}
    /\ backups = <<2, 3>>
    /\ deletion = <<1>>
    /\ Len(ticket_info_list) = 1
    /\ ticket_info_list[1].ticket_number = TKT2

====
